---- MODULE Spec2Model ----
(***************************************************************************)
(* Model of jromero132/telegram-auto-texter: the rotating registry of      *)
(* src/src/worker.py (catalogs, the usage register, the pick functions,    *)
(* set_as_used) and the send workflows send_morning_greeting and           *)
(* send_afternoon_media, run by the scheduled jobs and by the command      *)
(* handlers of src/main.py on one asyncio event loop.  A workflow is       *)
(* suspended only at its awaits (the transport calls); everything between  *)
(* two awaits is one atomic step.                                          *)
(***************************************************************************)
EXTENDS Integers, Sequences, FiniteSets, TLC

\* Largest catalog of a kind that the model explores.
MaxCatalog == 2

\* The register / catalog keys: worker.py 281, 327, 372.
Kinds == {"morning_stickers", "morning_media", "afternoon_media"}

\* The coroutines in flight at once on the event loop: a job run by the scheduler
\* (the greeting job, worker.py 649-664, or the afternoon job, 779-794) and a
\* command handler of main.py (/send_*, /test_*).
Procs == {"job", "command"}

VARIABLES
    catalog,    \* stickers.yaml / media.yaml: kind -> list of uids
    register,   \* register.yaml: kind -> sorted list of used uids
    wf,         \* per coroutine: position, picked entries, set_as_used flag, outcome
    sentCycle,  \* observer: kind -> uids delivered to the recipient in the current round
    marks,      \* observer: kind -> the set_as_used calls made: their number, their uids
    jobs,       \* the scheduler: per daily send, its date jobs that wait for their time
    value,          \* Token.value of each token of the graph
    next_tokens,    \* Token.next_tokens of each token
    initial_tokens, \* SentenceGenerator.initial_tokens
    evalPc,         \* where SentenceGenerator.eval is: idle, call, ret or done
    frames,         \* the Token.eval calls in progress: token and its left
    ret,            \* the value returned by the Token.eval that returned last
    path,           \* observer: the tokens evaluated by this SentenceGenerator.eval
    generated,      \* observer: the generator calls of this eval: token and text
    rootPicks,      \* observer: the pick_root calls of this eval
    picked,         \* observer: the lists handed to pick_next in this eval
    evals,          \* the SentenceGenerator.eval calls made so far
    sample,         \* the last low_random call: arguments, draw and outcome
    greet,          \* the get_morning_greeting call in progress: its locals
    nextTime,       \* the clock and the last get_next_time call with its result
    pills,          \* the pill reminder loop: its flag, its locals, the reminders sent
    filtered,       \* the last filter_by_register call: arguments and result
    lastMark        \* the last set_as_used call made on its own: entry and uid

\* The registry and its workflows.
registryVars == <<catalog, register, wf, sentCycle, marks, jobs>>

\* The token graph and the evaluation in progress.
sentenceVars == <<value, next_tokens, initial_tokens, evalPc, frames, ret, path,
                  generated, rootPicks, picked, evals>>

\* The helpers of utils/random.py, morning.py and worker.py that run apart
\* from the registry and the token graph.
utilVars == <<sample, greet, nextTime, pills, filtered, lastMark>>

vars == <<catalog, register, wf, sentCycle, marks, jobs, value, next_tokens,
          initial_tokens, evalPc, frames, ret, path, generated, rootPicks, picked,
          evals, sample, greet, nextTime, pills, filtered, lastMark>>

----------------------------------------------------------------------------
\* Pure helpers

\* set(seq)
Range(s) == {s[i] : i \in 1..Len(s)}

\* The list 1, 2, ..., n: a catalog of n entries with distinct uids.
UidList(n) == [i \in 1..n |-> i]

\* bisect.insort(lst, uid): insert uid after the last element <= uid.
insort(lst, uid) ==
    LET k == Cardinality({i \in 1..Len(lst) : lst[i] <= uid})
    IN  SubSeq(lst, 1, k) \o <<uid>> \o SubSeq(lst, k + 1, Len(lst))

\* read_yaml(REGISTER_YAML_PATH).get(kind, [])
register_get(reg, kind) == IF kind \in DOMAIN reg THEN reg[kind] ELSE <<>>

\* Faulty variant of filter_by_register: nothing is filtered out.
filter_by_register_unfiltered(data, reg) == data

\* filter_by_register(data, register): the entries of data whose uid is not in
\* set(register), in their original order.
filter_by_register(data, reg) ==
    LET _register == Range(reg)
    IN  SelectSeq(data, LAMBDA d : d \notin _register)

\* Faulty variant of Available: when nothing is unused, the pick falls back to
\* the whole catalog.
Available_fallback(kind) ==
    LET unused == filter_by_register(catalog[kind], register_get(register, kind))
    IN  IF unused = <<>> THEN catalog[kind] ELSE unused

\* What a pick (get_morning_sticker, get_morning_media, get_afternoon_media)
\* filters down to before its emptiness check and random.choice.
Available(kind) == filter_by_register(catalog[kind], register_get(register, kind))

get_morning_sticker == Available("morning_stickers")
get_morning_media == Available("morning_media")
get_afternoon_media == Available("afternoon_media")

\* Faulty variant of ValueError: the emptiness check is missing and
\* random.choice raises on the empty list.
ValueError_from_choice(kind) == "IndexError: Cannot choose from an empty sequence"

\* The ValueError a pick raises when nothing is available, per pick function.
ValueError(kind) ==
    CASE kind = "morning_stickers" -> "ValueError: no morning stickers"
      [] kind = "morning_media" -> "ValueError: no morning media"
      [] kind = "afternoon_media" -> "ValueError: no afternoon media"

\* Faulty variant of set_as_used: the full-cycle reset is missing.
set_as_used_no_reset(reg, entry, uid) ==
    IF uid \notin Range(reg[entry])
    THEN [reg EXCEPT ![entry] = insort(reg[entry], uid)]
    ELSE reg

\* Faulty variant of set_as_used: the reset compares with > instead of ==.
set_as_used_late_reset(reg, entry, uid) ==
    IF uid \notin Range(reg[entry])
    THEN LET inserted == insort(reg[entry], uid)
         IN  IF Len(inserted) > Len(catalog[entry])
             THEN [reg EXCEPT ![entry] = <<>>]
             ELSE [reg EXCEPT ![entry] = inserted]
    ELSE reg

\* Faulty variant of set_as_used: the full-cycle reset empties the lists of
\* all kinds.
set_as_used_reset_all(reg, entry, uid) ==
    IF uid \notin Range(reg[entry])
    THEN LET inserted == insort(reg[entry], uid)
         IN  IF Len(inserted) = Len(catalog[entry])
             THEN [k \in DOMAIN reg |-> <<>>]
             ELSE [reg EXCEPT ![entry] = inserted]
    ELSE reg

\* Faulty variant of set_as_used: the reset fires one entry early.
set_as_used_early_reset(reg, entry, uid) ==
    IF uid \notin Range(reg[entry])
    THEN LET inserted == insort(reg[entry], uid)
         IN  IF Len(inserted) + 1 >= Len(catalog[entry])
             THEN [reg EXCEPT ![entry] = <<>>]
             ELSE [reg EXCEPT ![entry] = inserted]
    ELSE reg

\* Faulty variant of set_as_used: the membership test is missing.
set_as_used_no_membership_test(reg, entry, uid) ==
    LET inserted == insort(reg[entry], uid)
    IN  IF Len(inserted) = Len(catalog[entry])
        THEN [reg EXCEPT ![entry] = <<>>]
        ELSE [reg EXCEPT ![entry] = inserted]

\* Faulty variant of set_as_used: only the list of this kind is written back, the lists
\* of the other kinds are lost.
set_as_used_clobber(reg, entry, uid) ==
    IF uid \notin Range(reg[entry])
    THEN LET inserted == insort(reg[entry], uid)
         IN  [k \in DOMAIN reg |->
                IF k # entry THEN <<>>
                ELSE IF Len(inserted) = Len(catalog[entry]) THEN <<>> ELSE inserted]
    ELSE reg

\* set_as_used(entry, uid, db_yaml) as a function of the register file read at its
\* start: the register file it leaves.  No await between the read and the write.
set_as_used(reg, entry, uid) ==
    IF uid \notin Range(reg[entry])
    THEN LET inserted == insort(reg[entry], uid)
         IN  IF Len(inserted) = Len(catalog[entry])
             THEN [reg EXCEPT ![entry] = <<>>]
             ELSE [reg EXCEPT ![entry] = inserted]
    ELSE reg

\* set_as_used raises KeyError when the register file has no list for the kind.
set_as_used_raises(reg, entry) == entry \notin DOMAIN reg

----------------------------------------------------------------------------
\* Observers (history only; they do not influence the program).  A specification
\* that does not need an observer starts it as Off, and it stays Off.
Off == <<"off">>

\* A delivery of uid of kind to the recipient: the round restarts once every
\* entry of the catalog was delivered.
ObserveSent(sc, kind, uid) ==
    IF sc = Off THEN sc
    ELSE LET now == sc[kind] \cup {uid}
         IN  [sc EXCEPT ![kind] = IF now = Range(catalog[kind]) THEN {} ELSE now]

\* A set_as_used call for uid of kind.  With N entries in the catalog of the kind,
\* the calls are counted up to N + 1 (one more than a full round) and the uids of
\* the first N calls are kept.
ObserveMark(mk, kind, uid) ==
    IF mk = Off THEN mk
    ELSE LET N == Len(catalog[kind])
         IN  [mk EXCEPT ![kind] =
                [n |-> IF @.n <= N THEN @.n + 1 ELSE @.n,
                 uids |-> IF @.n < N THEN @.uids \cup {uid} ELSE @.uids]]

----------------------------------------------------------------------------
\* A coroutine that runs no workflow; res is how its last workflow ended.
\* (0 stands for "no entry picked"; uids start at 1.)
Idle(res) == [pc |-> "idle", sticker |-> 0, media |-> 0, use |-> FALSE,
              result |-> res]

InFlight(p) == wf[p].pc # "idle"

AllIdle == \A p \in Procs : ~InFlight(p)

\* Which workflow each coroutine runs: a scheduled job calls the send function
\* with its defaults (set_as_used=True, the recipient); a command handler calls
\* either function, /send_* with the defaults and /test_* with user_id="me" and
\* set_as_used=False.
RunsMorning(p, use) == p = "command" \/ use
RunsAfternoon(p, use) == p = "command" \/ use

\* No low_random call is followed.
NoSample == sample = [pc |-> "idle"]

\* get_morning_greeting is not called.
NoGreeting == greet = [pc |-> "idle"]

\* get_next_time is not called; next_greeting_time is the time of the import.
NoNextTime == nextTime = [pc |-> "idle", clock |-> 0, next_greeting_time |-> 0]

\* The pill reminder job has not fired.
NoPills ==
    pills = [pc |-> "idle", keep_sending_pill_reminder |-> FALSE, idle_stop |-> FALSE]

\* No call of filter_by_register or set_as_used is followed on its own.
NoCalls == filtered = [pc |-> "idle"] /\ lastMark = [pc |-> "idle"]

\* The helpers are not followed.
NoUtilities == NoSample /\ NoGreeting /\ NoNextTime /\ NoPills /\ NoCalls

\* A SentenceGenerator without tokens that is never evaluated: the text of a
\* greeting plays no part in the registry.
NoSentences ==
    /\ value = <<>>
    /\ next_tokens = <<>>
    /\ initial_tokens = {}
    /\ evalPc = "idle"
    /\ frames = <<>>
    /\ ret = <<>>
    /\ path = <<>>
    /\ generated = <<>>
    /\ rootPicks = 0
    /\ picked = <<>>
    /\ evals = 0

InitProgram ==
    /\ catalog \in [Kinds -> {UidList(n) : n \in 0..MaxCatalog}]
    /\ register = [k \in Kinds |-> <<>>]
    /\ wf = [p \in Procs |-> Idle("none")]
    /\ NoSentences
    /\ NoUtilities

\* The scheduler when coroutine p starts a send of the daily kind: for the
\* scheduled coroutine the date job of that kind has fired and is gone.
JobFires(js, p, daily) ==
    IF js = Off \/ p # "job" THEN js ELSE [js EXCEPT ![daily] = @ - 1]

\* A send is started by a command at any time, by the scheduler when a date
\* job of the daily kind waits.
MayStart(p, daily) ==
    IF jobs = Off \/ p # "job" THEN TRUE ELSE jobs[daily] > 0

\* wrap reaches its statement after `await send_...(client)`, the call of
\* start_sending_..., when the awaited send returns; an exception of the send
\* leaves wrap at the await.
wrap_reschedules(result) == result = "ok"

\* Faulty variant of WrapGoesOn: a send started by a command adds a job too.
WrapGoesOn_any_coroutine(js, p, daily, w) ==
    IF js = Off \/ w.pc # "idle" THEN js
    ELSE IF wrap_reschedules(w.result) THEN [js EXCEPT ![daily] = @ + 1]
    ELSE js

\* The scheduler once the step of coroutine p left it in w: when the send of
\* the scheduled coroutine has ended, wrap goes on; start_sending_... adds one
\* date job (scheduler.add_job).
WrapGoesOn(js, p, daily, w) ==
    IF js = Off \/ p # "job" \/ w.pc # "idle" THEN js
    ELSE IF wrap_reschedules(w.result) THEN [js EXCEPT ![daily] = @ + 1]
    ELSE js

\* send_morning_greeting up to its first await: both picks, then send_message is
\* called.  A pick that finds nothing available raises ValueError.
MorningStart(p, use) ==
    /\ wf[p].pc = "idle"
    /\ MayStart(p, "morning")
    /\ RunsMorning(p, use)
    /\ IF get_morning_sticker = <<>>
       THEN wf' = [wf EXCEPT ![p] = Idle(ValueError("morning_stickers"))]
       ELSE IF get_morning_media = <<>>
       THEN wf' = [wf EXCEPT ![p] = Idle(ValueError("morning_media"))]
       ELSE \E i \in 1..Len(get_morning_sticker), j \in 1..Len(get_morning_media) :
                wf' = [wf EXCEPT ![p] = [pc |-> "msg",
                                         sticker |-> get_morning_sticker[i],
                                         media |-> get_morning_media[j],
                                         use |-> use, result |-> "running"]]
    /\ UNCHANGED <<catalog, register, sentCycle, marks>>
    /\ jobs' = WrapGoesOn(JobFires(jobs, p, "morning"), p, "morning", wf'[p])
    /\ UNCHANGED sentenceVars
    /\ UNCHANGED utilVars

\* await client.send_message(user_id, msg) returns or raises; on return the
\* sticker send is called.
MorningMessageSent(p, ok) ==
    /\ wf[p].pc = "msg"
    /\ wf' = [wf EXCEPT ![p] = IF ok THEN [@ EXCEPT !.pc = "sticker"]
                                     ELSE Idle("TransportError")]
    /\ UNCHANGED <<catalog, register, sentCycle, marks>>
    /\ jobs' = WrapGoesOn(jobs, p, "morning", wf'[p])
    /\ UNCHANGED sentenceVars
    /\ UNCHANGED utilVars

\* await client.send_message(user_id, file=InputDocument(...)) returns or raises;
\* on return the sticker is delivered and send_file is called.
MorningStickerSent(p, ok) ==
    /\ wf[p].pc = "sticker"
    /\ wf' = [wf EXCEPT ![p] = IF ok THEN [@ EXCEPT !.pc = "file"]
                                     ELSE Idle("TransportError")]
    /\ sentCycle' = IF ok /\ wf[p].use
                    THEN ObserveSent(sentCycle, "morning_stickers", wf[p].sticker)
                    ELSE sentCycle
    /\ UNCHANGED <<catalog, register, marks>>
    /\ jobs' = WrapGoesOn(jobs, p, "morning", wf'[p])
    /\ UNCHANGED sentenceVars
    /\ UNCHANGED utilVars

\* The catalog file that a mark helper hands to set_as_used as db_yaml.
db_yaml(entry) ==
    IF entry = "morning_stickers" THEN "data/stickers.yaml" ELSE "data/media.yaml"

\* Faulty variant of set_as_used_saves_to: save_yaml is given db_yaml.
set_as_used_saves_to_db_yaml(given) == given

\* The file that set_as_used hands to save_yaml, whatever db_yaml it was given.
set_as_used_saves_to(given) == "data/register.yaml"

\* The catalogs after set_as_used ran for `entries` and left the register `reg`:
\* a catalog file that save_yaml was pointed at would now hold the register.
CatalogsAfterMarks(cat, reg, entries) ==
    [k \in Kinds |->
        IF \E e \in entries : set_as_used_saves_to(db_yaml(e)) = db_yaml(k)
        THEN reg[k]
        ELSE cat[k]]

\* Faulty variant of MorningMarks: the marks are made for a test send as well.
MorningMarks_ignore_use(reg, ok, use, sticker, media) ==
    IF ok
    THEN IF set_as_used_raises(reg, "morning_stickers")
         THEN reg
         ELSE LET r1 == set_as_used(reg, "morning_stickers", sticker)
              IN  IF set_as_used_raises(r1, "morning_media")
                  THEN r1
                  ELSE set_as_used(r1, "morning_media", media)
    ELSE reg

\* Faulty variant of MorningMarks: the marking does not depend on the outcome of the send.
MorningMarks_ignore_ok(reg, ok, use, sticker, media) ==
    IF use
    THEN set_as_used(set_as_used(reg, "morning_stickers", sticker),
                     "morning_media", media)
    ELSE reg

\* Faulty variant of MorningMarks: the sticker is marked by its Telegram document id
\* (sticker["id"], a number outside the uids) instead of sticker["uid"].
MorningMarks_marks_id(reg, ok, use, sticker, media) ==
    IF ok /\ use
    THEN set_as_used(set_as_used(reg, "morning_stickers", MaxCatalog + sticker),
                     "morning_media", media)
    ELSE reg

\* Faulty variant of MorningMarks: only the sticker is marked.
MorningMarks_sticker_only(reg, ok, use, sticker, media) ==
    IF ok /\ use /\ ~set_as_used_raises(reg, "morning_stickers")
    THEN set_as_used(reg, "morning_stickers", sticker)
    ELSE reg

\* The register after the marking block of send_morning_greeting (594-596).
MorningMarks(reg, ok, use, sticker, media) ==
    IF ok /\ use
    THEN IF set_as_used_raises(reg, "morning_stickers")
         THEN reg
         ELSE LET r1 == set_as_used(reg, "morning_stickers", sticker)
              IN  IF set_as_used_raises(r1, "morning_media")
                  THEN r1
                  ELSE set_as_used(r1, "morning_media", media)
    ELSE reg

\* await client.send_file(...) returns or raises; on return the media is
\* delivered and, with set_as_used, the sticker and then the media are marked.
MorningFileSent(p, ok) ==
    /\ wf[p].pc = "file"
    /\ register' = MorningMarks(register, ok, wf[p].use, wf[p].sticker, wf[p].media)
    /\ wf' = [wf EXCEPT ![p] =
                IF ~ok THEN Idle("TransportError")
                ELSE IF wf[p].use /\ (set_as_used_raises(register, "morning_stickers")
                                      \/ set_as_used_raises(register, "morning_media"))
                     THEN Idle("KeyError")
                     ELSE Idle("ok")]
    /\ sentCycle' = IF ok /\ wf[p].use
                    THEN ObserveSent(sentCycle, "morning_media", wf[p].media)
                    ELSE sentCycle
    /\ marks' = IF ok /\ wf[p].use
                THEN ObserveMark(ObserveMark(marks, "morning_stickers", wf[p].sticker),
                                 "morning_media", wf[p].media)
                ELSE marks
    /\ catalog' = IF ok /\ wf[p].use
                  THEN CatalogsAfterMarks(catalog, register', {"morning_stickers", "morning_media"})
                  ELSE catalog
    /\ jobs' = WrapGoesOn(jobs, p, "morning", wf'[p])
    /\ UNCHANGED sentenceVars
    /\ UNCHANGED utilVars

\* send_afternoon_media up to its await: the pick, then send_file is called.
AfternoonStart(p, use) ==
    /\ wf[p].pc = "idle"
    /\ MayStart(p, "afternoon")
    /\ RunsAfternoon(p, use)
    /\ IF get_afternoon_media = <<>>
       THEN wf' = [wf EXCEPT ![p] = Idle(ValueError("afternoon_media"))]
       ELSE \E j \in 1..Len(get_afternoon_media) :
                wf' = [wf EXCEPT ![p] = [pc |-> "afile", sticker |-> 0,
                                         media |-> get_afternoon_media[j],
                                         use |-> use, result |-> "running"]]
    /\ UNCHANGED <<catalog, register, sentCycle, marks>>
    /\ jobs' = WrapGoesOn(JobFires(jobs, p, "afternoon"), p, "afternoon", wf'[p])
    /\ UNCHANGED sentenceVars
    /\ UNCHANGED utilVars

\* The register after the marking block of send_afternoon_media (721-722).
AfternoonMarks(reg, ok, use, media) ==
    IF ok /\ use /\ ~set_as_used_raises(reg, "afternoon_media")
    THEN set_as_used(reg, "afternoon_media", media)
    ELSE reg

\* await client.send_file(...) returns or raises; on return the media is
\* delivered and, with set_as_used, marked.
AfternoonFileSent(p, ok) ==
    /\ wf[p].pc = "afile"
    /\ register' = AfternoonMarks(register, ok, wf[p].use, wf[p].media)
    /\ wf' = [wf EXCEPT ![p] =
                IF ~ok THEN Idle("TransportError")
                ELSE IF wf[p].use /\ set_as_used_raises(register, "afternoon_media")
                     THEN Idle("KeyError")
                     ELSE Idle("ok")]
    /\ sentCycle' = IF ok /\ wf[p].use
                    THEN ObserveSent(sentCycle, "afternoon_media", wf[p].media)
                    ELSE sentCycle
    /\ marks' = IF ok /\ wf[p].use
                THEN ObserveMark(marks, "afternoon_media", wf[p].media)
                ELSE marks
    /\ catalog' = IF ok /\ wf[p].use
                  THEN CatalogsAfterMarks(catalog, register', {"afternoon_media"})
                  ELSE catalog
    /\ jobs' = WrapGoesOn(jobs, p, "afternoon", wf'[p])
    /\ UNCHANGED sentenceVars
    /\ UNCHANGED utilVars

----------------------------------------------------------------------------
\* Specifications

\* Any interleaving of the workflows of the coroutines, any transport outcome.
Init ==
    /\ InitProgram
    /\ sentCycle = Off
    /\ marks = Off
    /\ jobs = Off

Next ==
    \/ \E p \in Procs, use \in BOOLEAN : MorningStart(p, use)
    \/ \E p \in Procs, ok \in BOOLEAN : MorningMessageSent(p, ok)
    \/ \E p \in Procs, ok \in BOOLEAN : MorningStickerSent(p, ok)
    \/ \E p \in Procs, ok \in BOOLEAN : MorningFileSent(p, ok)
    \/ \E p \in Procs, use \in BOOLEAN : AfternoonStart(p, use)
    \/ \E p \in Procs, ok \in BOOLEAN : AfternoonFileSent(p, ok)

Spec == Init /\ [][Next]_vars

\* The same program, with the deliveries to the recipient observed.
InitObs ==
    /\ InitProgram
    /\ sentCycle = [k \in Kinds |-> {}]
    /\ marks = Off
    /\ jobs = Off

SpecObs == InitObs /\ [][Next]_vars

\* Workflows run one after another (a workflow starts only when none is in
\* flight), with the set_as_used calls observed.
InitSeq ==
    /\ InitProgram
    /\ sentCycle = Off
    /\ marks = [k \in Kinds |-> [n |-> 0, uids |-> {}]]
    /\ jobs = Off

NextSeq ==
    \/ \E p \in Procs, use \in BOOLEAN : AllIdle /\ MorningStart(p, use)
    \/ \E p \in Procs, ok \in BOOLEAN : MorningMessageSent(p, ok)
    \/ \E p \in Procs, ok \in BOOLEAN : MorningStickerSent(p, ok)
    \/ \E p \in Procs, ok \in BOOLEAN : MorningFileSent(p, ok)
    \/ \E p \in Procs, use \in BOOLEAN : AllIdle /\ AfternoonStart(p, use)
    \/ \E p \in Procs, ok \in BOOLEAN : AfternoonFileSent(p, ok)

SpecSeq == InitSeq /\ [][NextSeq]_vars

\* The same program with the scheduler followed: at start one date job of each
\* daily send waits (worker.py 670, 800).
InitSchedule ==
    /\ InitProgram
    /\ sentCycle = Off
    /\ marks = Off
    /\ jobs = [daily \in {"morning", "afternoon"} |-> 1]

SpecSchedule == InitSchedule /\ [][Next]_vars

\* The sorted lists of uids of a catalog: what a register list can hold.
RegisterLists(data) ==
    {SelectSeq(data, LAMBDA d : d \in S) : S \in SUBSET Range(data)}

\* The same program started on any register file over the catalogs, also one
\* that already lists every uid of a catalog (a register.yaml copied from
\* another deployment or edited by hand).
InitAnyRegister ==
    /\ catalog \in [Kinds -> {UidList(n) : n \in 0..MaxCatalog}]
    /\ register \in {r \in [Kinds -> RegisterLists(UidList(MaxCatalog))] :
                        \A k \in Kinds : Range(r[k]) \subseteq Range(catalog[k])}
    /\ wf = [p \in Procs |-> Idle("none")]
    /\ sentCycle = Off
    /\ marks = Off
    /\ jobs = Off
    /\ NoSentences
    /\ NoUtilities

SpecAnyRegister == InitAnyRegister /\ [][Next]_vars

\* The register files over the catalogs cat that list any of the kinds: a
\* register.yaml may lack the key of a kind (read_yaml gives a dict without
\* it), down to the empty mapping.
PartialRegisters(cat) ==
    UNION {{r \in [D -> RegisterLists(UidList(MaxCatalog))] :
                \A k \in D : Range(r[k]) \subseteq Range(cat[k])} : D \in SUBSET Kinds}

\* The same program started on a register file that may lack keys.
InitPartialRegister ==
    /\ catalog \in [Kinds -> {UidList(n) : n \in 0..MaxCatalog}]
    /\ register \in PartialRegisters(catalog)
    /\ wf = [p \in Procs |-> Idle("none")]
    /\ sentCycle = Off
    /\ marks = Off
    /\ jobs = Off
    /\ NoSentences
    /\ NoUtilities

SpecPartialRegister == InitPartialRegister /\ [][Next]_vars

\* One call of set_as_used(entry, uid, db_yaml) on its own, for a uid of the
\* catalog of the kind: register[entry] raises KeyError when the key is
\* missing, before anything is saved.
SetAsUsedCall(entry, uid) ==
    /\ register' = IF set_as_used_raises(register, entry) THEN register
                   ELSE set_as_used(register, entry, uid)
    /\ lastMark' = [pc |-> "returned", entry |-> entry, uid |-> uid,
                    raised |-> set_as_used_raises(register, entry)]
    /\ UNCHANGED <<catalog, wf, sentCycle, marks, jobs>>
    /\ UNCHANGED sentenceVars
    /\ UNCHANGED <<sample, greet, nextTime, pills, filtered>>

NextMarkCalls ==
    \E entry \in Kinds : \E uid \in Range(catalog[entry]) : SetAsUsedCall(entry, uid)

\* set_as_used called on its own, any number of times, on any register file.
SpecMarkCalls == InitPartialRegister /\ [][NextMarkCalls]_vars

----------------------------------------------------------------------------
\* The sentence generator (sentence_generator/sentence_generator.py)

\* Number of tokens of the graphs that the model explores.
MaxTokens == 3

\* Number of SentenceGenerator.eval calls that the model follows.
MaxEvals == 2

\* Strings are sequences of characters.
Wenas == <<"W", "e", "n", "a", "s">>

\* A Token value that is a str.
Str(text) == [deferred |-> FALSE, text |-> text]

\* A Token value that is a CustomGeneratedText: its text exists only when its
\* generator is called.
CustomGeneratedText == [deferred |-> TRUE, text |-> <<>>]

\* What the generators of morning.py return: a word or two with a stretched
\* vowel, such as "amor" and "mi amoor".
GeneratorResults ==
    {<<"a", "m", "o", "r">>, <<"m", "i", " ", "a", "m", "o", "o", "r">>}

\* The values the tokens of the explored graphs have: "" (the empty leaf of
\* morning.py), a literal word, a deferred text.
TokenValues == {Str(<<>>), Str(Wenas), CustomGeneratedText}

TokenIds == 1..MaxTokens

\* Faulty variant of str_value: the value is rendered with repr, in quotes.
str_value_repr(v, text) ==
    IF v.deferred THEN text ELSE <<"'">> \o v.text \o <<"'">>

\* str(self.value): the str itself, or for a CustomGeneratedText (whose __repr__
\* str() falls back to) the text that its generator returned to this call.
str_value(v, text) == IF v.deferred THEN text ELSE v.text

\* Faulty variant of generator_calls: the value is rendered once for the
\* emptiness test and once more for the result.
generator_calls_twice(v) == IF v.deferred THEN 2 ELSE 0

\* The number of generator calls that one str(self.value) makes.
generator_calls(v) == IF v.deferred THEN 1 ELSE 0

\* Faulty variant of eval_return: left and right are always joined by a space.
eval_return_always_space(left, right) == left \o <<" ">> \o right

\* Faulty variant of eval_return: the space depends on left alone.
eval_return_space_after_left(left, right) ==
    left \o (IF left # <<>> THEN <<" ">> ELSE <<>>) \o right

\* The return expression of Token.eval:
\* f"{left}{' ' if left != '' and right != '' else ''}{right}".
eval_return(left, right) ==
    left \o (IF left # <<>> /\ right # <<>> THEN <<" ">> ELSE <<>>) \o right

\* Faulty variant of pick_root_calls: the root is picked before the roots are
\* counted.
pick_root_calls_unguarded(roots) == 1

\* The number of pick_root calls of SentenceGenerator.eval over these roots.
pick_root_calls(roots) == IF roots = {} THEN 0 ELSE 1

\* Faulty variant of pick_next_calls: pick_next is called before the next
\* tokens are counted.
pick_next_calls_unguarded(nexts) == 1

\* The number of pick_next calls of Token.get_next_token over these next tokens.
pick_next_calls(nexts) == IF nexts = {} THEN 0 ELSE 1

\* Faulty variant of next_tokens_after_pick: the chosen token is popped.
next_tokens_after_pick_pop(nexts, chosen) == nexts \ {chosen}

\* next_tokens after self.pick_next(self.next_tokens) returned `chosen`:
\* random.choice and the index lambdas of morning.py only read the list.
next_tokens_after_pick(nexts, chosen) == nexts

\* Token.eval of token t begins: left = str(self.value), with `text` what the
\* generator of a deferred value returns to this call.
TokenEvalBegins(t, text, fr, pa, ge) ==
    /\ frames' = Append(fr, [token |-> t, left |-> str_value(value[t], text)])
    /\ path' = Append(pa, t)
    /\ generated' = ge \o [i \in 1..generator_calls(value[t]) |->
                              [token |-> t, text |-> text]]

\* Token.eval of the innermost call returns to its caller, or to
\* SentenceGenerator.eval when it is the root's.
TokenEvalReturns(right) ==
    /\ ret' = eval_return(frames[Len(frames)].left, right)
    /\ frames' = SubSeq(frames, 1, Len(frames) - 1)
    /\ evalPc' = IF Len(frames) = 1 THEN "done" ELSE "ret"
    /\ UNCHANGED <<path, generated>>

\* SentenceGenerator.eval is called: "" without roots, else pick_root chooses a
\* root and its Token.eval begins.
SentenceGeneratorEval ==
    /\ evalPc \in {"idle", "done"}
    /\ evals < MaxEvals
    /\ evals' = evals + 1
    /\ rootPicks' = pick_root_calls(initial_tokens)
    /\ picked' = <<>>
    /\ IF initial_tokens = {}
       THEN /\ evalPc' = "done"
            /\ ret' = <<>>
            /\ frames' = <<>>
            /\ path' = <<>>
            /\ generated' = <<>>
       ELSE /\ \E root \in initial_tokens, text \in GeneratorResults :
                  TokenEvalBegins(root, text, <<>>, <<>>, <<>>)
            /\ evalPc' = "call"
            /\ ret' = <<>>
    /\ UNCHANGED <<value, next_tokens, initial_tokens>>
    /\ UNCHANGED registryVars
    /\ UNCHANGED utilVars

\* The innermost Token.eval calls get_next_token: without next tokens right is
\* "" and the call returns; else pick_next chooses one and its eval begins.
TokenGetNext ==
    /\ evalPc = "call"
    /\ LET t == frames[Len(frames)].token
       IN  /\ picked' = picked \o [i \in 1..pick_next_calls(next_tokens[t]) |->
                                     next_tokens[t]]
           /\ IF next_tokens[t] = {}
              THEN /\ TokenEvalReturns(<<>>)
                   /\ UNCHANGED next_tokens
              ELSE /\ \E n \in next_tokens[t], text \in GeneratorResults :
                         /\ TokenEvalBegins(n, text, frames, path, generated)
                         /\ next_tokens' = [next_tokens EXCEPT
                                               ![t] = next_tokens_after_pick(@, n)]
                   /\ UNCHANGED <<evalPc, ret>>
    /\ UNCHANGED <<value, initial_tokens, rootPicks, evals>>
    /\ UNCHANGED registryVars
    /\ UNCHANGED utilVars

\* The Token.eval that called the one that just returned gets its right and
\* returns in turn.
TokenReturn ==
    /\ evalPc = "ret"
    /\ TokenEvalReturns(ret)
    /\ UNCHANGED <<value, next_tokens, initial_tokens, rootPicks, picked, evals>>
    /\ UNCHANGED registryVars
    /\ UNCHANGED utilVars

\* The token graphs: tokens numbered so that next tokens have larger numbers
\* (add_next_token builds on tokens that exist), any of them roots.
InitSentences ==
    /\ value \in [TokenIds -> TokenValues]
    /\ next_tokens \in {n \in [TokenIds -> SUBSET TokenIds] :
                           \A t \in TokenIds : \A u \in n[t] : u > t}
    /\ initial_tokens \in SUBSET TokenIds
    /\ evalPc = "idle"
    /\ frames = <<>>
    /\ ret = <<>>
    /\ path = <<>>
    /\ generated = <<>>
    /\ rootPicks = 0
    /\ picked = <<>>
    /\ evals = 0
    /\ catalog = [k \in Kinds |-> <<>>]
    /\ register = [k \in Kinds |-> <<>>]
    /\ wf = [p \in Procs |-> Idle("none")]
    /\ sentCycle = Off
    /\ marks = Off
    /\ jobs = Off
    /\ NoUtilities

NextSentences ==
    \/ SentenceGeneratorEval
    \/ TokenGetNext
    \/ TokenReturn

SpecSentences == InitSentences /\ [][NextSentences]_vars

----------------------------------------------------------------------------
\* The authored morning graph (sentence_generator/morning.py)

\* Tokens are named after the variables of morning.py; a token without a
\* variable is named after the token it is built for and its text.

\* Token(value, pick_next) in graph g: a new token t with its own, empty
\* next_tokens list.
Token(g, t, v) ==
    [value |-> (t :> v) @@ g.value, next_tokens |-> (t :> {}) @@ g.next_tokens]

\* t.add_next_tokens(*nexts): self.next_tokens.extend(next_tokens).
add_next_tokens(g, t, nexts) ==
    [g EXCEPT !.next_tokens[t] = @ \cup nexts]

\* t.add_next_token(n): self.next_tokens.append(next_token).
add_next_token(g, t, n) ==
    [g EXCEPT !.next_tokens[t] = @ \cup {n}]

\* The tokens that morning.py creates before it links any: the plain
\* endearments, the stretched ones and the three fixed ones.
MorningTokens ==
    LET values ==
           <<"amor">> :> Str(<<"a", "m", "o", "r">>)
        @@ <<"mi_amor">> :> Str(<<"m", "i", " ", "a", "m", "o", "r">>)
        @@ <<"amorcita">> :> Str(<<"a", "m", "o", "r", "c", "i", "t", "a">>)
        @@ <<"mi_amorcita">> :>
              Str(<<"m", "i", " ", "a", "m", "o", "r", "c", "i", "t", "a">>)
        @@ <<"amorcito">> :> Str(<<"a", "m", "o", "r", "c", "i", "t", "o">>)
        @@ <<"mi_amorcito">> :>
              Str(<<"m", "i", " ", "a", "m", "o", "r", "c", "i", "t", "o">>)
        @@ <<"amooor">> :> CustomGeneratedText
        @@ <<"mi_amooor">> :> CustomGeneratedText
        @@ <<"amorcitaaa">> :> CustomGeneratedText
        @@ <<"mi_amorcitaaa">> :> CustomGeneratedText
        @@ <<"amorcitooo">> :> CustomGeneratedText
        @@ <<"mi_amorcitooo">> :> CustomGeneratedText
        @@ <<"mailob">> :> Str(<<"m", "a", "i", "l", "o", "b">>)
        @@ <<"my_love">> :> Str(<<"m", "y", " ", "l", "o", "v", "e">>)
        @@ <<"preciosura_tropical">> :>
              Str(<<"p", "r", "e", "c", "i", "o", "s", "u", "r", "a", " ",
                    "t", "r", "o", "p", "i", "c", "a", "l">>)
    IN  [value |-> values, next_tokens |-> [t \in DOMAIN values |-> {}]]

\* The list of the fragments that several roots share.
general_right_part ==
    << <<"amooor">>, <<"mi_amooor">>, <<"amorcitaaa">>, <<"mi_amorcitaaa">>,
       <<"amorcitooo">>, <<"mi_amorcitooo">>, <<"mailob">>, <<"my_love">>,
       <<"preciosura_tropical">> >>

\* Faulty variant of wenas_fragment: the shared token itself gets the two
\* followers.
wenas_fragment_shared(token) == token

\* The token that "Wenas" gets for a fragment of general_right_part:
\* Token(token.value, pick_next=...), a token of its own with the same value.
wenas_fragment(token) == <<"wenas", token[1]>>

\* The list comprehension under "Wenas", from the i-th fragment on: each
\* fragment's token for "Wenas" is followed by a new "" and a new stretched
\* "wenas".
RECURSIVE wenas_fragments(_, _)
wenas_fragments(g, i) ==
    IF i > Len(general_right_part) THEN g
    ELSE LET token == general_right_part[i]
             fragment == wenas_fragment(token)
             empty == <<"wenas", token[1], "">>
             wenaaas == <<"wenas", token[1], "wenaaas">>
             followers == Token(Token(g, empty, Str(<<>>)),
                                wenaaas, CustomGeneratedText)
         IN  wenas_fragments(
                 add_next_tokens(Token(followers, fragment, g.value[token]),
                                 fragment, {empty, wenaaas}),
                 i + 1)

\* The graph after morning.py has run: the roots in the order in which the
\* module creates them, each linked to its fragments.
MorningGraph ==
    LET shared == Range(general_right_part)
        hola ==
            add_next_tokens(Token(MorningTokens, <<"hola">>, CustomGeneratedText),
                            <<"hola">>, shared)
        buenos_dias ==
            add_next_tokens(
                Token(Token(Token(hola,
                                  <<"buenos_dias", "señorita">>,
                                  Str(<<"s", "e", "ñ", "o", "r", "i", "t", "a">>)),
                            <<"buenos_dias", "princesita">>,
                            Str(<<"p", "r", "i", "n", "c", "e", "s", "i", "t", "a">>)),
                      <<"buenos_dias">>,
                      Str(<<"B", "u", "e", "n", "o", "s", " ", "d", "í", "a", "s">>)),
                <<"buenos_dias">>,
                shared \cup {<<"buenos_dias", "señorita">>,
                             <<"buenos_dias", "princesita">>})
        wenas ==
            add_next_token(
                add_next_tokens(
                    Token(wenas_fragments(buenos_dias, 1), <<"wenas">>, Str(Wenas)),
                    <<"wenas">>,
                    {wenas_fragment(general_right_part[i]) :
                        i \in 1..Len(general_right_part)}),
                <<"wenas">>, <<"preciosura_tropical">>)
        guenas ==
            add_next_tokens(
                Token(wenas, <<"guenas">>, Str(<<"G", "ü", "e", "n", "a", "s">>)),
                <<"guenas">>, shared)
        jelou ==
            add_next_tokens(
                Token(guenas, <<"jelou">>, Str(<<"J", "e", "l", "o", "u">>)),
                <<"jelou">>, shared)
        jeloucito ==
            add_next_tokens(
                Token(jelou, <<"jeloucito">>,
                      Str(<<"J", "e", "l", "o", "u", "c", "i", "t", "o">>)),
                <<"jeloucito">>,
                {<<"mi_amorcitooo">>, <<"mailob">>, <<"my_love">>,
                 <<"preciosura_tropical">>})
        gusmornin ==
            add_next_tokens(
                Token(jeloucito, <<"gusmornin">>,
                      Str(<<"G", "u", "s", "m", "o", "r", "n", "i", "n">>)),
                <<"gusmornin">>, shared)
        good_morning ==
            add_next_tokens(
                Token(gusmornin, <<"good_morning">>,
                      Str(<<"G", "o", "o", "d", " ", "m", "o", "r", "n", "i", "n", "g">>)),
                <<"good_morning">>, shared)
        god_morgon ==
            add_next_tokens(
                Token(Token(good_morning,
                            <<"god_morgon", "prinsessa">>,
                            Str(<<"p", "r", "i", "n", "s", "e", "s", "s", "a">>)),
                      <<"god_morgon">>,
                      Str(<<"G", "o", "d", " ", "m", "o", "r", "g", "o", "n">>)),
                <<"god_morgon">>, shared \cup {<<"god_morgon", "prinsessa">>})
        bonjour ==
            add_next_tokens(
                Token(Token(Token(god_morgon,
                                  <<"bonjour", "mademoiselle">>,
                                  Str(<<"m", "a", "d", "e", "m", "o", "i", "s",
                                        "e", "l", "l", "e">>)),
                            <<"bonjour", "princesse">>,
                            Str(<<"p", "r", "i", "n", "c", "e", "s", "s", "e">>)),
                      <<"bonjour">>, Str(<<"B", "o", "n", "j", "o", "u", "r">>)),
                <<"bonjour">>,
                {<<"bonjour", "mademoiselle">>, <<"bonjour", "princesse">>})
        buongiorno ==
            add_next_tokens(
                Token(Token(Token(bonjour,
                                  <<"buongiorno", "principessa">>,
                                  Str(<<"p", "r", "i", "n", "c", "i", "p", "e",
                                        "s", "s", "a">>)),
                            <<"buongiorno", "signorina">>,
                            Str(<<"s", "i", "g", "n", "o", "r", "i", "n", "a">>)),
                      <<"buongiorno">>,
                      Str(<<"B", "u", "o", "n", "g", "i", "o", "r", "n", "o">>)),
                <<"buongiorno">>,
                {<<"buongiorno", "principessa">>, <<"buongiorno", "signorina">>})
    IN  buongiorno

\* The roots that morning.py gives to SentenceGenerator: "Jeloucito" is built
\* but is not among them.
MorningRoots ==
    {<<"hola">>, <<"buenos_dias">>, <<"wenas">>, <<"guenas">>, <<"jelou">>,
     <<"gusmornin">>, <<"good_morning">>, <<"god_morgon">>, <<"bonjour">>,
     <<"buongiorno">>}

\* morning.sentences after the module has been imported, before any eval.
InitMorning ==
    /\ value = MorningGraph.value
    /\ next_tokens = MorningGraph.next_tokens
    /\ initial_tokens = MorningRoots
    /\ evalPc = "idle"
    /\ frames = <<>>
    /\ ret = <<>>
    /\ path = <<>>
    /\ generated = <<>>
    /\ rootPicks = 0
    /\ picked = <<>>
    /\ evals = 0
    /\ catalog = [k \in Kinds |-> <<>>]
    /\ register = [k \in Kinds |-> <<>>]
    /\ wf = [p \in Procs |-> Idle("none")]
    /\ sentCycle = Off
    /\ marks = Off
    /\ jobs = Off
    /\ NoUtilities

\* morning.sentences.eval() called any number of times on the authored graph.
SpecMorning == InitMorning /\ [][NextSentences]_vars

----------------------------------------------------------------------------
\* The skewed sampler (utils/random.py)

\* Number of values random.random() can return: 0, 1/Draws, ..., 1 - 1/Draws.
\* The doubles next to 1.0 from below lie as far apart as these draws (2^-53
\* for both in Python), so the largest draw is the double next to 1.0.
Draws == 8

\* Largest b - a of the ranges that the model explores.
MaxSpan == 2

\* The lower bounds explored: morning.py calls low_random with a = 0 and a = 1.
LowerBounds == {0, 1}

\* An exponent far below the spacing of the doubles, such as 1e-20: u ** p is
\* 1.0 for every draw u > 0. It is written 1/0 and never computed with.
TinyExponent == [num |-> 1, den |-> 0]

\* The exponents p = num/den explored: the default 2 and 3 of morning.py, 1,
\* 1/3, the tiny one, 0 and -1.
Exponents ==
    {[num |-> 2, den |-> 1], [num |-> 3, den |-> 1], [num |-> 1, den |-> 1],
     [num |-> 1, den |-> 3], TinyExponent, [num |-> 0, den |-> 1],
     [num |-> -1, den |-> 1]}

\* p > 0
IsPositive(p) == p.num > 0

\* floor(n * (u/Draws) ** p) in exact arithmetic, for p > 0: the m with
\* (m/n)^den <= (u/Draws)^num < ((m+1)/n)^den.
FloorOfScaledPower(n, u, p) ==
    IF u = 0 THEN 0
    ELSE CHOOSE m \in 0..n :
            /\ (m ^ p.den) * (Draws ^ p.num) <= (n ^ p.den) * (u ^ p.num)
            /\ ((m + 1) ^ p.den) * (Draws ^ p.num) > (n ^ p.den) * (u ^ p.num)

\* random.random() ** p is the double 1.0: for p = 0 always (also 0.0 ** 0);
\* for p > 0 when (u/Draws) ** p is at least as near to 1.0 as to the double
\* below it, 1 - 1/Draws, that is (u/Draws)^num >= (1 - 1/(2 Draws))^den.
power_is_one(u, p) ==
    \/ p.num = 0
    \/ p = TinyExponent /\ u > 0
    \/ /\ p.num > 0 /\ p.den > 0
       /\ (u ^ p.num) * ((2 * Draws) ^ p.den)
             >= ((2 * Draws - 1) ^ p.den) * (Draws ^ p.num)

\* low_random(a, b, p) when random.random() returns u/Draws:
\* a + int((b - a + 1) * (random.random() ** p)). 0.0 to a negative power
\* raises; any other power below zero is (Draws/u) ** -p.
low_random(a, b, p, u) ==
    IF p.num < 0 /\ u = 0
    THEN [raises |-> "ZeroDivisionError", result |-> 0]
    ELSE [raises |-> "none",
          result |->
              IF power_is_one(u, p) THEN a + (b - a + 1)
              ELSE IF p.num < 0
                   THEN a + ((b - a + 1) * (Draws ^ (-p.num))) \div (u ^ (-p.num))
                   ELSE a + FloorOfScaledPower(b - a + 1, u, p)]

\* One call of low_random.
LowRandomCall(a, b, p, u) ==
    /\ sample' = [pc |-> "returned", a |-> a, b |-> b, p |-> p, u |-> u,
                  out |-> low_random(a, b, p, u)]
    /\ UNCHANGED registryVars
    /\ UNCHANGED sentenceVars
    /\ UNCHANGED <<greet, nextTime, pills, filtered, lastMark>>

\* Nothing stored, nobody in flight, no token graph.
NoProgram ==
    /\ catalog = [k \in Kinds |-> <<>>]
    /\ register = [k \in Kinds |-> <<>>]
    /\ wf = [p \in Procs |-> Idle("none")]
    /\ sentCycle = Off
    /\ marks = Off
    /\ jobs = Off
    /\ NoSentences

InitRandom ==
    /\ NoProgram
    /\ NoUtilities

NextRandom ==
    \E a \in LowerBounds, span \in 0..MaxSpan, p \in Exponents, u \in 0..(Draws - 1) :
        LowRandomCall(a, a + span, p, u)

SpecRandom == InitRandom /\ [][NextRandom]_vars

----------------------------------------------------------------------------
\* The morning greeting with its emojis (morning.py 122-210)

\* Results of sentences.eval() that the model explores.
Greetings == {Wenas} \cup GeneratorResults

\* emoji1 .. emoji6: every list starts with "", the other entries are one
\* emoji each (written by name).
emoji_lists ==
    << << <<>>, <<"waving hand">>, <<"victory hand">> >>,
       << <<>>, <<"tongue">>, <<"squinting tongue">>, <<"zany">>, <<"yum">> >>,
       << <<>>, <<"upside-down">>, <<"beaming">>, <<"grinning eyes">>, <<"grinning">> >>,
       << <<>>, <<"hugging">>, <<"kissing">>, <<"smiling eyes">>, <<"smiling">>,
          <<"hand over mouth">> >>,
       << <<>>, <<"hearts">>, <<"blowing a kiss">> >>,
       << <<>>, <<"heart hands">>, <<"red heart">> >> >>

\* get_emoji(emojis, p): emojis[low_random(1, len(emojis), p) - 1]. The
\* exponents passed are 3.5, 5, 4, 3, 1.3 and 2, all above 1, for which
\* low_random returns every value of 1..len(emojis) and no other.
get_emoji_choices(emojis) == {emojis[i] : i \in 1..Len(emojis)}

\* get_all_emojis(): the six picks, concatenated in the order of the lists.
get_all_emojis_choices ==
    {e1 \o e2 \o e3 \o e4 \o e5 \o e6 :
        e1 \in get_emoji_choices(emoji_lists[1]),
        e2 \in get_emoji_choices(emoji_lists[2]),
        e3 \in get_emoji_choices(emoji_lists[3]),
        e4 \in get_emoji_choices(emoji_lists[4]),
        e5 \in get_emoji_choices(emoji_lists[5]),
        e6 \in get_emoji_choices(emoji_lists[6])}

\* Faulty variant of while_not_emojis: the loop is never entered.
while_not_emojis_never(emojis) == FALSE

\* The loop condition `while not emojis`.
while_not_emojis(emojis) == emojis = <<>>

\* greeting = sentences.eval(); emojis = "". The observers: evals counts the
\* sentences.eval() calls, rounds the passes of the loop (up to one), redrawn
\* tells that the loop made a second pass.
GetMorningGreetingBegins ==
    /\ greet.pc \in {"idle", "done"}
    /\ \E greeting \in Greetings :
          greet' = [pc |-> "loop", greeting |-> greeting, evals |-> 1,
                    emojis |-> <<>>, rounds |-> 0, redrawn |-> FALSE]
    /\ UNCHANGED registryVars
    /\ UNCHANGED sentenceVars
    /\ UNCHANGED <<sample, nextTime, pills, filtered, lastMark>>

\* One pass of the loop: emojis = get_all_emojis()
GetAllEmojis ==
    /\ greet.pc = "loop"
    /\ while_not_emojis(greet.emojis)
    /\ \E emojis \in get_all_emojis_choices :
          greet' = [greet EXCEPT !.emojis = emojis, !.rounds = 1,
                                 !.redrawn = greet.rounds = 1]
    /\ UNCHANGED registryVars
    /\ UNCHANGED sentenceVars
    /\ UNCHANGED <<sample, nextTime, pills, filtered, lastMark>>

\* return f"{greeting} {emojis}"
GetMorningGreetingReturns ==
    /\ greet.pc = "loop"
    /\ ~while_not_emojis(greet.emojis)
    /\ greet' = [pc |-> "done", greeting |-> greet.greeting, evals |-> greet.evals,
                 emojis |-> greet.emojis, redrawn |-> greet.redrawn,
                 result |-> greet.greeting \o <<" ">> \o greet.emojis]
    /\ UNCHANGED registryVars
    /\ UNCHANGED sentenceVars
    /\ UNCHANGED <<sample, nextTime, pills, filtered, lastMark>>

InitGreeting ==
    /\ NoProgram
    /\ NoUtilities

NextGreeting ==
    \/ GetMorningGreetingBegins
    \/ GetAllEmojis
    \/ GetMorningGreetingReturns

SpecGreeting == InitGreeting /\ [][NextGreeting]_vars

\* The pass of the loop that draws at least one emoji.
GetSomeEmojis == GetAllEmojis /\ greet'.emojis # <<>>

\* Fair draws: the six picks are independent random draws, so the loop cannot
\* draw six times "" forever; the code between the draws runs without awaits.
SpecGreetingFair ==
    /\ SpecGreeting
    /\ WF_vars(GetSomeEmojis)
    /\ WF_vars(GetMorningGreetingReturns)

----------------------------------------------------------------------------
\* The time of the next daily send (worker.py 185-226, 643-670)

\* Time is counted in ticks since midnight of day 0; a calendar day has
\* DayTicks of them.
DayTicks == 4

\* The schedule is followed over the days 0 .. MaxDays.
MaxDays == 3

\* The calendar day of a moment, and the moment a day starts.
DayOf(t) == t \div DayTicks
Midnight(day) == day * DayTicks

\* timedelta(days=1), the timespan of every caller, and a shorter one.
OneDay == DayTicks
Timespans == {1, OneDay}

\* get_next_time(tm, timespan, try_now) when its two readings of
\* datetime.now() are now and now2; tm.seconds lies within one day.
get_next_time(now, now2, tm, timespan, try_now) ==
    LET start == IF try_now THEN now ELSE now + timespan
        dt == Midnight(DayOf(start)) + tm
    IN  IF dt < now2 THEN dt + timespan ELSE dt

\* The global next_greeting_time after `next_greeting_time = dt`, the
\* statement before scheduler.add_job(..., run_date=dt).
next_greeting_time_set(found, dt) == dt

\* The record of a get_next_time call made when the clock shows now and
\* returning `lag` ticks later, followed by the rest of start_sending_...:
\* the global is set and the date job added; ran is the time of the job that
\* re-arms (-1 at the first call).
NextTimeCall(now, lag, tm, timespan, try_now, ran) ==
    LET dt == get_next_time(now, now + lag, tm, timespan, try_now)
    IN  [pc |-> "armed", clock |-> now + lag, now |-> now, now2 |-> now + lag,
         tm |-> tm, timespan |-> timespan, try_now |-> try_now, ran |-> ran,
         dt |-> dt,
         next_greeting_time |-> next_greeting_time_set(nextTime.next_greeting_time, dt)]

\* start_sending_...(scheduler, client, try_today) at start-up, at any time
\* of day 0: tm is drawn, dt computed and the date job added.
StartSending(now, lag, tm, timespan, try_today) ==
    /\ nextTime.pc = "idle"
    /\ nextTime' = NextTimeCall(now, lag, tm, timespan, try_today, -1)
    /\ UNCHANGED registryVars
    /\ UNCHANGED sentenceVars
    /\ UNCHANGED <<sample, greet, pills, filtered, lastMark>>

\* The date job fires at its run_date (at once when that lies in the past)
\* and is gone from the scheduler; wrap awaits the send, which takes `took`
\* ticks.
WrapRuns(took) ==
    /\ nextTime.pc = "armed"
    /\ DayOf(nextTime.dt) < MaxDays
    /\ LET fired == IF nextTime.dt < nextTime.clock THEN nextTime.clock ELSE nextTime.dt
       IN  nextTime' = [nextTime EXCEPT !.pc = "sending", !.clock = fired + took]
    /\ UNCHANGED registryVars
    /\ UNCHANGED sentenceVars
    /\ UNCHANGED <<sample, greet, pills, filtered, lastMark>>

\* The awaited send returns and wrap calls start_sending_... with try_today
\* left at False, or the send raises and wrap ends there.
WrapSendEnds(ok, lag, tm) ==
    /\ nextTime.pc = "sending"
    /\ nextTime' = IF ok
                   THEN NextTimeCall(nextTime.clock, lag, tm, nextTime.timespan, FALSE,
                                     nextTime.dt)
                   ELSE [nextTime EXCEPT !.pc = "failed"]
    /\ UNCHANGED registryVars
    /\ UNCHANGED sentenceVars
    /\ UNCHANGED <<sample, greet, pills, filtered, lastMark>>

InitNextTime ==
    /\ NoProgram
    /\ NoUtilities

NextNextTime ==
    \/ \E now \in 0..(DayTicks - 1), lag \in 0..1, tm \in 0..(DayTicks - 1),
          timespan \in Timespans, try_today \in BOOLEAN :
            StartSending(now, lag, tm, timespan, try_today)
    \/ \E took \in 0..1 : WrapRuns(took)
    \/ \E ok \in BOOLEAN, lag \in 0..1, tm \in 0..(DayTicks - 1) : WrapSendEnds(ok, lag, tm)

SpecNextTime == InitNextTime /\ [][NextNextTime]_vars

----------------------------------------------------------------------------
\* The pill reminder loop (worker.py 897-935, 978-990)

\* The loop is followed up to this many reminders.
MaxReminders == 320

\* One pass of the loop body up to its first await: the batch is closed when
\* it is full (waiting_time //= 2, max_messages *= 2, cur_messages = 0), the
\* reminder is counted and send_message is called.
PillLoopBody(pl) ==
    LET full == pl.cur_messages = pl.max_messages
    IN  [pl EXCEPT !.pc = "send",
                   !.waiting_time = IF full THEN @ \div 2 ELSE @,
                   !.max_messages = IF full THEN @ * 2 ELSE @,
                   !.cur_messages = IF full THEN 1 ELSE @ + 1]

\* The loop of wrap is running: it awaits send_message or asyncio.sleep.
PillLoopRuns == pills.pc \in {"send", "sleep"}

\* Faulty variant of wrap_sets_flag: wrap leaves the flag as it finds it.
wrap_sets_flag_keeps(found) == found

\* The flag after the first statement of wrap, keep_sending_pill_reminder =
\* True, whatever it was before.
wrap_sets_flag(found) == TRUE

\* The cron job fires while no run of it is in progress (the scheduler runs
\* one instance of a job at a time): wrap sets the flag and its locals and
\* tests the flag at the head of the loop. idle_stop is an observer: a stop
\* message was handled since the last run ended.
PillWrapStarts ==
    /\ ~PillLoopRuns
    /\ LET flag == wrap_sets_flag(pills.keep_sending_pill_reminder)
           locals == [pc |-> "loop", keep_sending_pill_reminder |-> flag,
                      idle_stop |-> pills.idle_stop,
                      waiting_time |-> 60, max_messages |-> 5,
                      cur_messages |-> 0, sent |-> 0]
       IN  pills' = IF flag THEN PillLoopBody(locals)
                    ELSE [locals EXCEPT !.pc = "stopped", !.idle_stop = FALSE]
    /\ UNCHANGED registryVars
    /\ UNCHANGED sentenceVars
    /\ UNCHANGED <<sample, greet, nextTime, filtered, lastMark>>

\* await client.send_message(...) returns (the reminder is sent, the loop
\* calls asyncio.sleep(waiting_time)) or raises (the exception ends wrap).
PillMessageSent(ok) ==
    /\ pills.pc = "send"
    /\ pills' = IF ok THEN [pills EXCEPT !.pc = "sleep", !.sent = @ + 1]
                ELSE [pills EXCEPT !.pc = "failed", !.idle_stop = FALSE]
    /\ UNCHANGED registryVars
    /\ UNCHANGED sentenceVars
    /\ UNCHANGED <<sample, greet, nextTime, filtered, lastMark>>

\* await asyncio.sleep(waiting_time) returns: the loop tests its flag and
\* either ends or makes its next pass.
PillSleepOver ==
    /\ pills.pc = "sleep"
    /\ pills.keep_sending_pill_reminder => pills.sent < MaxReminders
    /\ pills' = IF pills.keep_sending_pill_reminder THEN PillLoopBody(pills)
                ELSE [pills EXCEPT !.pc = "stopped", !.idle_stop = FALSE]
    /\ UNCHANGED registryVars
    /\ UNCHANGED sentenceVars
    /\ UNCHANGED <<sample, greet, nextTime, filtered, lastMark>>

\* The handler of a message of the recipient, at any time: the flag is
\* cleared.
StopPillReminder ==
    /\ pills' = [pills EXCEPT !.keep_sending_pill_reminder = FALSE,
                              !.idle_stop = IF PillLoopRuns THEN @ ELSE TRUE]
    /\ UNCHANGED registryVars
    /\ UNCHANGED sentenceVars
    /\ UNCHANGED <<sample, greet, nextTime, filtered, lastMark>>

InitPills ==
    /\ NoProgram
    /\ NoUtilities

NextPills ==
    \/ PillWrapStarts
    \/ \E ok \in BOOLEAN : PillMessageSent(ok)
    \/ PillSleepOver
    \/ StopPillReminder

SpecPills == InitPills /\ [][NextPills]_vars

\* The event loop resumes a coroutine whose awaited call has ended: a send
\* ends (it returns or raises), a sleep ends.
SpecPillsFair ==
    /\ SpecPills
    /\ WF_vars(\E ok \in BOOLEAN : PillMessageSent(ok))
    /\ WF_vars(PillSleepOver)

----------------------------------------------------------------------------
\* filter_by_register on lists of entries (worker.py 125-148)

\* Longest data list given to filter_by_register.
MaxData == 3

\* The entries of a data list: dicts with a uid and the rest of the entry;
\* two entries may carry the same uid.
Entries == [uid : 1..(MaxCatalog + 1), file : {"a.jpg", "b.jpg"}]

\* The lists of at most n elements of S.
SeqsUpTo(S, n) == UNION {[1..k -> S] : k \in 0..n}

\* Faulty variant of filter_by_register_key: the test is inverted, the
\* registered entries are the ones kept.
filter_by_register_key_inverted(data, reg, key) ==
    LET _register == Range(reg)
    IN  SelectSeq(data, LAMBDA d : d[key] \in _register)

\* filter_by_register(data, register, key="uid"):
\* [d for d in data if d[key] not in set(register)]
filter_by_register_key(data, reg, key) ==
    LET _register == Range(reg)
    IN  SelectSeq(data, LAMBDA d : d[key] \notin _register)

\* The call of filter_by_register with the default key returns.
FilterByRegisterCall ==
    /\ filtered.pc = "called"
    /\ filtered' = [pc |-> "returned", data |-> filtered.data,
                    register |-> filtered.register,
                    out |-> filter_by_register_key(filtered.data, filtered.register, "uid")]
    /\ UNCHANGED registryVars
    /\ UNCHANGED sentenceVars
    /\ UNCHANGED <<sample, greet, nextTime, pills, lastMark>>

\* filter_by_register is called with any list of entries and any list of
\* uids, sorted or not, with or without repetitions.
InitFilter ==
    /\ NoProgram
    /\ NoSample /\ NoGreeting /\ NoNextTime /\ NoPills
    /\ lastMark = [pc |-> "idle"]
    /\ filtered \in [pc : {"called"}, data : SeqsUpTo(Entries, MaxData),
                     register : SeqsUpTo(1..(MaxCatalog + 1), MaxCatalog)]

NextFilter == FilterByRegisterCall

SpecFilter == InitFilter /\ [][NextFilter]_vars

----------------------------------------------------------------------------
\* What a coroutine holds and does, as the claims speak of it

\* The uid of the entry of kind that coroutine p has picked and still holds
\* (0: none): the locals sticker and media of the send functions.
Held(p, kind) ==
    CASE kind = "morning_stickers" ->
            IF wf[p].pc \in {"msg", "sticker", "file"} THEN wf[p].sticker ELSE 0
      [] kind = "morning_media" ->
            IF wf[p].pc \in {"msg", "sticker", "file"} THEN wf[p].media ELSE 0
      [] kind = "afternoon_media" ->
            IF wf[p].pc = "afile" THEN wf[p].media ELSE 0

\* The kinds that the workflow of p marks when its last transport call returns.
MarkedKinds(p) ==
    CASE wf[p].pc = "file" -> {"morning_stickers", "morning_media"}
      [] wf[p].pc = "afile" -> {"afternoon_media"}
      [] OTHER -> {}

\* This step is the return of the last transport call of p's workflow, which was
\* called with set_as_used=True: the step that runs the marking block.
MarkStep(p) ==
    /\ wf[p].pc \in {"file", "afile"}
    /\ wf[p].use
    /\ wf'[p].result = "ok"

\* This step is a transport call of p's workflow raising.
FailStep(p) == InFlight(p) /\ wf'[p].result = "TransportError"

\* This step delivers the entry of kind held by p to the recipient (the
\* workflows with set_as_used=True are the ones that send to the recipient).
DeliversToRecipient(p, kind) ==
    /\ wf[p].use
    /\ CASE kind = "morning_stickers" -> wf[p].pc = "sticker" /\ wf'[p].pc = "file"
         [] kind = "morning_media" ->
                wf[p].pc = "file" /\ wf'[p].pc = "idle" /\ wf'[p].result # "TransportError"
         [] kind = "afternoon_media" ->
                wf[p].pc = "afile" /\ wf'[p].pc = "idle" /\ wf'[p].result # "TransportError"

----------------------------------------------------------------------------
\* Claims

\* C1 (as stated; refuted under SpecObs): an entry of a kind that has been
\* delivered to the recipient is not delivered again before every entry of the
\* kind's catalog has been delivered once, also when workflows overlap or a
\* transport call fails part-way.
C1_NoRepeatBeforeFullRound ==
    [][\A p \in Procs, k \in Kinds :
          DeliversToRecipient(p, k) => Held(p, k) \notin sentCycle[k]]_vars

\* C2 (SpecSeq): with N entries in the catalog of a kind and an empty register,
\* the first N pick+mark cycles run one after another mark N pairwise different
\* uids, and after N cycles every uid of the catalog has been picked.
C2_SequentialCyclesPickDistinct ==
    \A k \in Kinds :
        LET N == Len(catalog[k])
        IN  /\ marks[k].n <= N => Cardinality(marks[k].uids) = marks[k].n
            /\ marks[k].n >= N => marks[k].uids = Range(catalog[k])

\* C2 witness: a full round of a catalog of at least two entries has been marked.
C2_Witness ==
    \E k \in Kinds : Len(catalog[k]) >= 2 /\ marks[k].n = Len(catalog[k])

\* C3 (SpecSeq): after the N-th sequential pick+mark cycle the register of the
\* kind is the empty list again and the next pick has all N entries available;
\* after each of the first N-1 marks the register is non-empty.
C3_RegisterEmptyAfterFullRound ==
    \A k \in Kinds :
        LET N == Len(catalog[k])
        IN  /\ marks[k].n = N => register[k] = <<>> /\ Available(k) = catalog[k]
            /\ (marks[k].n >= 1 /\ marks[k].n < N) => register[k] # <<>>

\* C3 witness: after a full round of a catalog of at least two entries, the
\* (N+1)-th pick has been made.
C3_Witness ==
    \E k \in Kinds, p \in Procs :
        /\ Len(catalog[k]) >= 2
        /\ marks[k].n = Len(catalog[k])
        /\ wf[p].use
        /\ Held(p, k) # 0

\* C4 (Spec): the register of a kind with a non-empty catalog always holds
\* strictly fewer identifiers than the catalog has entries.
C4_RegisterSmallerThanCatalog ==
    \A k \in Kinds : catalog[k] # <<>> => Len(register[k]) < Len(catalog[k])

\* C4 witness: all entries but one are registered and a workflow is about to mark
\* the last one.
C4_Witness ==
    \E k \in Kinds, p \in Procs :
        /\ Len(catalog[k]) >= 2
        /\ Len(register[k]) = Len(catalog[k]) - 1
        /\ wf[p].use
        /\ k \in MarkedKinds(p)
        /\ Held(p, k) \notin Range(register[k])

\* C5 (Spec): a pick on a non-empty catalog never finds nothing available: the
\* unused entries of the kind are non-empty in every state, and no workflow has
\* ended with the pick's ValueError for a kind whose catalog is non-empty.
C5_PickNeverExhausted ==
    /\ \A k \in Kinds : catalog[k] # <<>> => Available(k) # <<>>
    /\ \A p \in Procs, k \in Kinds :
          wf[p].result = ValueError(k) => catalog[k] = <<>>

\* C5 witness: a pick was made from a register in which every catalog is
\* non-empty and a kind has a single unused entry left.
C5_Witness ==
    /\ \A k \in Kinds : catalog[k] # <<>>
    /\ \E k \in Kinds, p \in Procs :
          /\ Len(Available(k)) = 1
          /\ register[k] # <<>>
          /\ Held(p, k) = Available(k)[1]

\* C6 (as stated; refuted under Spec): pick+mark pairs of a kind are serialized,
\* so two workflows in flight never hold the same picked entry of a kind.
C6_PickMarkPairsSerialized ==
    \A p, q \in Procs, k \in Kinds :
        (p # q /\ wf[p].use /\ wf[q].use /\ Held(p, k) # 0)
            => Held(p, k) # Held(q, k)

\* C7 (Spec): every marking is one atomic update of the register as other
\* workflows see it: the step that marks uid of a kind leaves the register of the
\* kind holding exactly what it held plus uid, or empty when that is the whole
\* catalog (nothing of an earlier mark is lost, no full register is left), and
\* no other step and no other kind's list changes.
C7_MarkIsAtomic ==
    [][\A k \in Kinds :
          /\ \A p \in Procs :
                (MarkStep(p) /\ k \in MarkedKinds(p)) =>
                    LET want == Range(register[k]) \cup {Held(p, k)}
                    IN  IF want = Range(catalog[k])
                        THEN register'[k] = <<>>
                        ELSE /\ Range(register'[k]) = want
                             /\ Len(register'[k]) = Cardinality(want)
          /\ (~ \E p \in Procs : MarkStep(p) /\ k \in MarkedKinds(p))
                => register'[k] = register[k]]_vars

\* C7 witness: two workflows that mark are both awaiting their last transport
\* call, holding entries of the same kind, with marks of others already stored.
C7_Witness ==
    \E k \in Kinds :
        /\ \A p \in Procs : wf[p].use /\ k \in MarkedKinds(p)
        /\ \E k2 \in Kinds : register[k2] # <<>>

\* C8 (Spec): an item is marked only after the transport delivered it: a step in
\* which a transport call raises leaves the register unchanged, and the register
\* changes only in the step in which the last transport call of a workflow with
\* set_as_used returns.
C8_FailureLeavesRegister ==
    [][/\ \A p \in Procs : FailStep(p) => register' = register
       /\ register' # register => \E p \in Procs : MarkStep(p)]_vars

\* C8 witness: a workflow has ended with a transport error while the register
\* holds marks of delivered items.
C8_Witness ==
    /\ \E p \in Procs : wf[p].result = "TransportError"
    /\ \E k \in Kinds : register[k] # <<>>

\* C9 (as stated; refuted under Spec): for every register state and every uid of
\* the catalog, set_as_used called twice leaves the register that one call leaves.
C9_MarkTwiceEqualsOnce ==
    \A k \in Kinds : \A u \in Range(catalog[k]) :
        set_as_used(set_as_used(register, k, u), k, u) = set_as_used(register, k, u)

\* C9 amended (Spec): set_as_used called twice leaves the register that one call
\* leaves, except when the first call completes the round of a catalog of two or
\* more entries: then the first call leaves the list empty and the second call
\* records the uid in it.
C9_MarkTwiceEqualsOnceUnlessReset ==
    \A k \in Kinds : \A u \in Range(catalog[k]) :
        LET once == set_as_used(register, k, u)
            twice == set_as_used(once, k, u)
        IN  IF /\ u \notin Range(register[k])
               /\ Len(register[k]) + 1 = Len(catalog[k])
               /\ Len(catalog[k]) >= 2
            THEN once[k] = <<>> /\ twice = [once EXCEPT ![k] = <<u>>]
            ELSE twice = once

\* C9 witness: a uid has been marked and is in the register, so that marking it
\* again is the second call.
C9_Witness ==
    \E k \in Kinds : \E u \in Range(register[k]) :
        /\ Len(catalog[k]) >= 2
        /\ \E p \in Procs : wf[p].result = "ok"

\* C10 (Spec): the identifiers in the register of a kind are uids of the kind's
\* catalog, and no identifier is stored twice.
C10_RegisterSubsetNoDuplicates ==
    \A k \in Kinds :
        /\ Range(register[k]) \subseteq Range(catalog[k])
        /\ Cardinality(Range(register[k])) = Len(register[k])

\* C10 witness: the morning workflow has marked a sticker and a media entry.
C10_Witness ==
    /\ register["morning_stickers"] # <<>>
    /\ register["morning_media"] # <<>>

\* The message of the ValueError of each pick function (worker.py 292, 338, 383).
NoAvailableItems(kind) ==
    CASE kind = "morning_stickers" -> "ValueError: no morning stickers"
      [] kind = "morning_media" -> "ValueError: no morning media"
      [] kind = "afternoon_media" -> "ValueError: no afternoon media"

\* This step is coroutine p calling a send function: it runs up to the first
\* await, or to the exception of a pick.
StartStep(p) == wf[p].pc = "idle" /\ wf'[p] # wf[p]

\* C11 (SpecAnyRegister): every entry that a pick returns is an entry of the
\* kind's catalog whose uid is not in the register that the pick read; a
\* registered entry is never returned, also when no unused entry exists.
C11_PickReturnsUnused ==
    [][\A p \in Procs, k \in Kinds :
          (Held(p, k) = 0 /\ Held(p, k)' # 0)
              => Held(p, k)' \in Range(catalog[k]) \ Range(register[k])]_vars

\* C11 witness: a workflow holds an entry picked beside registered ones, while
\* another kind has no unused entry left.
C11_Witness ==
    /\ \E p \in Procs, k \in Kinds :
          Held(p, k) # 0 /\ register[k] # <<>> /\ Held(p, k) \notin Range(register[k])
    /\ \E k \in Kinds : catalog[k] # <<>> /\ Available(k) = <<>>

\* C12 (SpecAnyRegister): a pick of a kind whose register lists every uid of the
\* catalog raises the ValueError of its emptiness check and returns no entry: a
\* send function gets past its picks only when each had an unused entry, and
\* otherwise ends with the ValueError of a kind that had none, holding nothing.
C12_ExhaustedPickRaises ==
    [][\A p \in Procs :
          StartStep(p) =>
              /\ wf'[p].pc = "msg" =>
                    Available("morning_stickers") # <<>> /\ Available("morning_media") # <<>>
              /\ wf'[p].pc = "afile" => Available("afternoon_media") # <<>>
              /\ wf'[p].pc = "idle" =>
                    /\ \E k \in Kinds :
                          Available(k) = <<>> /\ wf'[p].result = NoAvailableItems(k)
                    /\ \A k \in Kinds : Held(p, k)' = 0]_vars

\* C12 witness: a pick on a non-empty catalog whose uids are all registered has
\* raised.
C12_Witness ==
    \E p \in Procs, k \in Kinds :
        /\ catalog[k] # <<>>
        /\ Range(register[k]) = Range(catalog[k])
        /\ wf[p].result = NoAvailableItems(k)

\* C13 (as stated; refuted under SpecAnyRegister): a pick on an empty catalog
\* fails with an error that differs from the error of a pick on a non-empty
\* catalog without unused entries.
C13_EmptyCatalogErrorDistinct ==
    \A p \in Procs, k \in Kinds :
        (catalog[k] = <<>> /\ wf[p].pc = "idle" /\ wf[p].result # "none")
            => wf[p].result \notin {NoAvailableItems(e) : e \in Kinds}

\* C14 (Spec): a send with set_as_used=False leaves the register unchanged,
\* whatever its transport calls do: no step of such a workflow changes it.
C14_TestSendLeavesRegister ==
    [][\A p \in Procs :
          (wf'[p] # wf[p] /\ ~wf[p].use /\ ~wf'[p].use) => register' = register]_vars

\* C14 witness: a test greeting has had its message and sticker delivered and
\* awaits send_file, while the register holds marks.
C14_Witness ==
    /\ wf["command"].pc = "file" /\ ~wf["command"].use
    /\ \E k \in Kinds : register[k] # <<>>

\* C15 (Spec): no pick, mark or send changes a catalog: in every step the
\* persisted catalogs stay as they were, while the register may change.
C15_CatalogsNeverWritten == [][catalog' = catalog]_vars

\* C15 witness: marks have been saved and a pick has raised, with a workflow
\* still between its pick and its marks.
C15_Witness ==
    /\ \E k \in Kinds : register[k] # <<>>
    /\ \E p \in Procs : InFlight(p)
    /\ \E p \in Procs, k \in Kinds : wf[p].result = NoAvailableItems(k)

\* The words joined by single spaces.
RECURSIVE SpaceJoin(_)
SpaceJoin(words) ==
    IF words = <<>> THEN <<>>
    ELSE IF Len(words) = 1 THEN words[1]
    ELSE words[1] \o <<" ">> \o SpaceJoin(Tail(words))

\* The words that are not "".
NonEmpty(words) == SelectSeq(words, LAMBDA w : w # <<>>)

\* No space at either end and no two spaces in a row.
Tidy(text) ==
    \/ text = <<>>
    \/ /\ text[1] # " "
       /\ text[Len(text)] # " "
       /\ \A i \in 1..(Len(text) - 1) : ~(text[i] = " " /\ text[i + 1] = " ")

\* This step is a Token.eval returning.
ReturnStep == Len(frames') = Len(frames) - 1

\* The right of the Token.eval that returns in this step.
RightOfReturn == IF evalPc = "ret" THEN ret ELSE <<>>

\* C16 (SpecSentences): Token.eval returns left, one space, right when both are
\* non-empty, and left directly followed by right otherwise.
C16_EvalJoinsWithOneSpace ==
    [][ReturnStep =>
          LET left == frames[Len(frames)].left
              right == RightOfReturn
          IN  /\ SubSeq(ret', 1, Len(left)) = left
              /\ SubSeq(ret', Len(ret') - Len(right) + 1, Len(ret')) = right
              /\ IF left # <<>> /\ right # <<>>
                 THEN /\ Len(ret') = Len(left) + Len(right) + 1
                      /\ ret'[Len(left) + 1] = " "
                 ELSE Len(ret') = Len(left) + Len(right)]_vars

\* C16 witness: an eval has joined a non-empty left to a non-empty right, with
\* an empty value further down the path.
C16_Witness ==
    /\ evalPc = "done"
    /\ Len(path) = 3
    /\ value[path[1]] # Str(<<>>)
    /\ value[path[2]] # Str(<<>>)
    /\ value[path[3]] = Str(<<>>)

\* C17 (SpecSentences): over token values and generated texts that are tidy (""
\* included), the sentence that SentenceGenerator.eval returns has no space at
\* either end and no two spaces in a row; and the token "Wenas" followed by a ""
\* leaf gives "Wenas".
C17_OutputIsTidy ==
    (/\ evalPc = "done"
     /\ \A t \in TokenIds : Tidy(value[t].text)
     /\ \A i \in 1..Len(generated) : Tidy(generated[i].text))
        => /\ Tidy(ret)
           /\ (/\ Len(path) = 2
               /\ value[path[1]] = Str(Wenas)
               /\ value[path[2]] = Str(<<>>)) => ret = Wenas

\* C17 witness: "Wenas" followed by a "" leaf has been evaluated.
C17_Witness ==
    /\ evalPc = "done"
    /\ Len(path) = 2
    /\ value[path[1]] = Str(Wenas)
    /\ value[path[2]] = Str(<<>>)

\* C18 (SpecSentences): without roots SentenceGenerator.eval returns "", raises
\* nothing and does not call pick_root.
C18_NoRootsGivesEmptyString ==
    (initial_tokens = {} /\ evals > 0)
        => /\ evalPc = "done"
           /\ ret = <<>>
           /\ rootPicks = 0
           /\ path = <<>>

\* C18 witness: a generator without roots has been evaluated.
C18_Witness == initial_tokens = {} /\ evals > 0 /\ evalPc = "done"

\* The tokens of the evaluation form a path from a root to a token without
\* next tokens.
RootToLeaf(pa) ==
    /\ pa # <<>>
    /\ pa[1] \in initial_tokens
    /\ \A i \in 1..(Len(pa) - 1) : pa[i + 1] \in next_tokens[pa[i]]
    /\ next_tokens[pa[Len(pa)]] = {}

\* C19 (SpecSentences): over a graph of str tokens, the sentence returned is the
\* non-empty values along one root-to-leaf path joined by single spaces, and
\* nothing else: "" without roots, else the join along the path evaluated.
C19_OutputIsPathJoin ==
    (evalPc = "done" /\ \A t \in TokenIds : ~value[t].deferred)
        => IF initial_tokens = {}
           THEN ret = <<>>
           ELSE /\ RootToLeaf(path)
                /\ ret = SpaceJoin(NonEmpty([i \in 1..Len(path) |-> value[path[i]].text]))

\* C19 witness: a path of three str tokens has been evaluated, the middle one "".
C19_Witness ==
    /\ evalPc = "done"
    /\ \A t \in TokenIds : ~value[t].deferred
    /\ Len(path) = 3
    /\ value[path[1]] = Str(Wenas)
    /\ value[path[2]] = Str(<<>>)
    /\ value[path[3]] = Str(Wenas)

\* The text of the i-th token of the path in this eval: the str, or what the
\* generator call for the token returned.
TextAt(i) ==
    IF value[path[i]].deferred
    THEN generated[CHOOSE j \in 1..Len(generated) : generated[j].token = path[i]].text
    ELSE value[path[i]].text

\* C20 (SpecSentences): every evaluation of a token whose value is a
\* CustomGeneratedText calls its generator exactly once, in every
\* SentenceGenerator.eval anew, and the text returned is the token's text in
\* the sentence as it is; no generator is called at construction, for a token
\* that is not on the path, or for a str token.
C20_GeneratorCalledOncePerEval ==
    /\ evals = 0 => generated = <<>>
    /\ \A j \in 1..Len(generated) :
          /\ value[generated[j].token].deferred
          /\ \E i \in 1..Len(path) : path[i] = generated[j].token
    /\ \A i \in 1..Len(path) :
          value[path[i]].deferred =>
              Cardinality({j \in 1..Len(generated) : generated[j].token = path[i]})
                  = Cardinality({h \in 1..Len(path) : path[h] = path[i]})
    /\ \A i \in 1..Len(frames) :
          value[frames[i].token].deferred =>
              \E j \in 1..Len(generated) :
                  generated[j] = [token |-> frames[i].token, text |-> frames[i].left]
    /\ (evalPc = "done" /\ initial_tokens # {})
          => ret = SpaceJoin(NonEmpty([i \in 1..Len(path) |-> TextAt(i)]))

\* C20 witness: the second eval of a generator has ended on a path with a
\* deferred token, with another deferred token off the path.
C20_Witness ==
    /\ evals = 2
    /\ evalPc = "done"
    /\ \E i \in 1..Len(path) : value[path[i]].deferred
    /\ \E t \in TokenIds : value[t].deferred /\ \A i \in 1..Len(path) : path[i] # t

\* The number of tokens on the longest path that starts at token t.
RECURSIVE LongestFrom(_)
LongestFrom(t) ==
    IF next_tokens[t] = {} THEN 1
    ELSE 1 + LongestFrom(CHOOSE n \in next_tokens[t] :
                            \A m \in next_tokens[t] : LongestFrom(m) <= LongestFrom(n))

\* What is left of the walk at most: the steps down from the innermost token,
\* each of which adds a return, and the returns of the calls in progress.
StepsLeft ==
    IF evalPc = "call" THEN Len(frames) + 2 * LongestFrom(frames[Len(frames)].token)
    ELSE IF evalPc = "ret" THEN Len(frames)
    ELSE 0

\* C21 (SpecSentences): an eval walks forward only: a get_next_token step at a
\* token without next tokens ends the walk, any other appends exactly one of
\* the token's next tokens, handed out by one pick_next call on the non-empty
\* list; the tokens walked never outnumber the longest path, and every step
\* brings the end nearer, so the walk terminates.
C21_WalkForwardAndTerminates ==
    [][/\ evalPc = "call" =>
             LET t == frames[Len(frames)].token
             IN  IF next_tokens[t] = {}
                 THEN path' = path /\ picked' = picked /\ evalPc' \in {"ret", "done"}
                 ELSE /\ Len(path') = Len(path) + 1
                      /\ SubSeq(path', 1, Len(path)) = path
                      /\ path'[Len(path')] \in next_tokens[t]
                      /\ picked' = Append(picked, next_tokens[t])
       /\ evalPc = "ret" => (path' = path /\ picked' = picked)
       /\ evalPc \in {"call", "ret"} => StepsLeft' < StepsLeft
       /\ evalPc' \in {"call", "ret"} =>
             /\ \A i \in 1..Len(picked') : picked'[i] # {}
             /\ Len(path') <= LongestFrom(path'[1])]_vars

\* C21 witness: a walk of three tokens has ended where another path was open.
C21_Witness ==
    /\ evalPc = "done"
    /\ Len(path) = 3
    /\ Len(picked) = 2
    /\ Cardinality(picked[1]) = 2

\* The strings Token.eval of token t can return.
RECURSIVE Outputs(_)
Outputs(t) ==
    LET lefts == IF value[t].deferred THEN GeneratorResults ELSE {value[t].text}
        rights == IF next_tokens[t] = {} THEN {<<>>}
                  ELSE UNION {Outputs(n) : n \in next_tokens[t]}
    IN  {eval_return(l, r) : l \in lefts, r \in rights}

\* The strings SentenceGenerator.eval can return on its first call.
SentenceOutputs ==
    IF initial_tokens = {} THEN {<<>>} ELSE UNION {Outputs(t) : t \in initial_tokens}

\* C22 (SpecSentences): no step of an eval changes the roots, the values or the
\* next tokens; an eval starts from its root alone, with nothing kept of the
\* eval before; and what the k-th eval returns is a string the first could
\* have returned.
C22_EvalLeavesGraph ==
    [][/\ value' = value
       /\ next_tokens' = next_tokens
       /\ initial_tokens' = initial_tokens
       /\ (evals' = evals + 1 /\ initial_tokens # {}) =>
             /\ Len(path') = 1 /\ path'[1] \in initial_tokens
             /\ Len(frames') = 1 /\ frames'[1].token = path'[1]
       /\ evalPc' = "done" => ret' \in SentenceOutputs]_vars

\* C22 witness: the second eval of a generator with two roots has returned.
C22_Witness ==
    /\ evals = 2
    /\ evalPc = "done"
    /\ Cardinality(initial_tokens) = 2
    /\ Len(path) = 2

\* C23 (as stated; refuted under SpecRandom): for a <= b, p > 0 and every draw,
\* low_random returns a + floor((b - a + 1) * u^p), a value of a..b.
C23_LowRandomInRange ==
    (sample.pc = "returned" /\ IsPositive(sample.p)) =>
        /\ sample.out.raises = "none"
        /\ sample.out.result \in sample.a..sample.b
        /\ sample.p # TinyExponent =>
              sample.out.result
                  = sample.a + FloorOfScaledPower(sample.b - sample.a + 1, sample.u, sample.p)

\* C24 (as stated; refuted under SpecRandom): a call with p <= 0 is rejected
\* with an InvalidSkewError and returns no value.
C24_NonPositiveSkewRejected ==
    (sample.pc = "returned" /\ ~IsPositive(sample.p)) =>
        sample.out.raises = "InvalidSkewError"

\* The number of draws that low_random(a, b, p) maps to v.
Share(a, b, p, v) ==
    Cardinality({u \in 0..(Draws - 1) :
                    LET out == low_random(a, b, p, u)
                    IN  out.raises = "none" /\ out.result = v})

\* C25 (as stated; refuted under SpecRandom): over the evenly spaced draws,
\* p = 1 gives every value of a..b the same share (when the values divide the
\* draws evenly), p > 1 gives no value a larger share than the value below
\* it, and p < 1 gives no value a smaller share than the value below it.
C25_SharesFollowSkew ==
    (sample.pc = "returned" /\ IsPositive(sample.p)) =>
        LET a == sample.a
            b == sample.b
            p == sample.p
            above == p # TinyExponent /\ p.num > p.den
            below == p = TinyExponent \/ p.num < p.den
        IN  /\ (p.num = p.den /\ Draws % (b - a + 1) = 0) =>
                  \A v \in a..b : Share(a, b, p, v) = Share(a, b, p, a)
            /\ above => \A v \in a..(b - 1) : Share(a, b, p, v + 1) <= Share(a, b, p, v)
            /\ below => \A v \in a..(b - 1) : Share(a, b, p, v + 1) >= Share(a, b, p, v)

\* C26: get_morning_greeting returns the phrase, one space and a suffix of
\* emojis that is never empty; the suffix is one whole redraw of the six
\* slots, made while the previous one is empty; the phrase is generated once
\* and kept through the redraws; under fair draws every call returns.
C26_GreetingHasEmojis ==
    /\ [](greet.pc = "done" =>
            /\ greet.emojis # <<>>
            /\ greet.emojis \in get_all_emojis_choices
            /\ greet.result = greet.greeting \o <<" ">> \o greet.emojis
            /\ greet.evals = 1)
    /\ [][greet.pc = "loop" =>
            /\ greet'.greeting = greet.greeting
            /\ greet'.evals = greet.evals
            /\ (greet'.pc = "loop" => greet.emojis = <<>>)]_vars
    /\ (greet.pc = "loop" ~> greet.pc = "done")

\* A call that drew six times "", drew again and returned.
C26_Witness == greet.pc = "done" /\ greet.redrawn

\* The scheduled coroutine runs the send of the daily kind.
JobRuns(daily) ==
    IF daily = "morning" THEN wf["job"].pc \in {"msg", "sticker", "file"}
    ELSE wf["job"].pc = "afile"

\* C27 (as stated; refuted under SpecSchedule): whatever the outcome of its
\* send, every run of a scheduled job ends with exactly one next job of its
\* kind scheduled: of each daily send, either the job is running or exactly
\* one date job waits.
C27_NextJobAlwaysScheduled ==
    jobs # Off => \A daily \in {"morning", "afternoon"} : JobRuns(daily) \/ jobs[daily] = 1

\* After this step uid counts as marked in the register of kind: the list
\* holds it, or the step stored it as the last missing uid of the catalog and
\* thereby emptied the list.
MarkedBy(kind, uid) ==
    \/ uid \in Range(register'[kind])
    \/ /\ register'[kind] = <<>>
       /\ uid \notin Range(register[kind])
       /\ Len(register[kind]) + 1 = Len(catalog[kind])

\* C28 (Spec): a send_morning_greeting with set_as_used=True that returns
\* normally has marked both the sticker it sent and the media it sent, each in
\* the register of its own kind; it never returns having marked one of them only.
C28_BothMarkedOnSuccess ==
    [][\A p \in Procs :
          (wf[p].pc = "file" /\ wf[p].use /\ wf'[p].pc = "idle" /\ wf'[p].result = "ok") =>
              /\ MarkedBy("morning_stickers", wf[p].sticker)
              /\ MarkedBy("morning_media", wf[p].media)]_vars

\* C28 witness: a greeting was sent and marked while the stickers still had
\* unused entries and the media catalog had none left but the one sent: the
\* sticker is listed, the media list was emptied by the mark.
C28_Witness ==
    \E p \in Procs :
        /\ wf[p].result = "ok"
        /\ register["morning_stickers"] # <<>>
        /\ register["morning_media"] = <<>>
        /\ catalog["morning_media"] # <<>>

\* C29 (as stated; refuted under SpecNextTime): get_next_time never returns a
\* moment before the current time; with try_now=False it returns tm on the
\* day of now + timespan, with try_now=True tm today when that has not passed
\* and tm today plus timespan otherwise; with a timespan of one day a
\* re-armed job falls on the day after the job that re-armed it.
C29_NextTimeNotInPast ==
    nextTime.pc = "armed" =>
        LET today == Midnight(DayOf(nextTime.now)) + nextTime.tm
        IN  /\ nextTime.dt >= nextTime.now2
            /\ ~nextTime.try_now =>
                  nextTime.dt
                      = Midnight(DayOf(nextTime.now + nextTime.timespan)) + nextTime.tm
            /\ nextTime.try_now =>
                  nextTime.dt = IF today >= nextTime.now2 THEN today
                                ELSE today + nextTime.timespan
            /\ (nextTime.ran >= 0 /\ nextTime.timespan = OneDay) =>
                  DayOf(nextTime.dt) = DayOf(nextTime.ran) + 1

\* C30 (as stated; refuted under SpecPills): the pause that follows a pill
\* reminder (waiting_time) is at least 1 second for every reminder sent,
\* however long the loop runs without a stop message.
C30_PauseAtLeastOneSecond ==
    pills.pc \in {"send", "sleep"} => pills.waiting_time >= 1

\* C31 (as stated; refuted under SpecPillsFair): once a stop message was
\* handled while the loop runs, the loop starts no further send and ends at
\* its next test of the flag; and a loop for which no stop message was
\* handled never ends.
C31_StopEndsLoopAndOnlyStop ==
    /\ [][(PillLoopRuns /\ ~pills.keep_sending_pill_reminder) =>
            /\ ~(pills.pc = "sleep" /\ pills'.pc = "send")
            /\ (pills.pc = "sleep" /\ pills'.pc # "sleep") => pills'.pc = "stopped"]_vars
    /\ (PillLoopRuns /\ ~pills.keep_sending_pill_reminder) ~> ~PillLoopRuns
    /\ [][(PillLoopRuns /\ pills.keep_sending_pill_reminder) =>
            pills'.pc \in {"send", "sleep"}]_vars

KeptPositions(data, reg) ==
    {j \in 1..Len(data) : \A i \in 1..Len(reg) : reg[i] # data[j].uid}

\* C32 (SpecFilter): filter_by_register returns the entries of data whose uid
\* is not in the register, each as it is in data and in the order of data;
\* the result is empty exactly when every uid of data is in the register.
C32_FilterKeepsUnregistered ==
    filtered.pc = "returned" =>
        LET kept == KeptPositions(filtered.data, filtered.register)
            nth(i) == CHOOSE j \in kept : Cardinality({k \in kept : k <= j}) = i
        IN  /\ Len(filtered.out) = Cardinality(kept)
            /\ \A i \in 1..Len(filtered.out) : filtered.out[i] = filtered.data[nth(i)]
            /\ filtered.out = <<>> <=>
                  \A j \in 1..Len(filtered.data) :
                      \E i \in 1..Len(filtered.register) :
                          filtered.register[i] = filtered.data[j].uid

\* C32 witness: of three entries, two of them with the same uid, the one in
\* the middle is registered and removed.
C32_Witness ==
    /\ filtered.pc = "returned"
    /\ Len(filtered.data) = 3
    /\ filtered.data[1].uid = filtered.data[3].uid
    /\ filtered.data[1] # filtered.data[3]
    /\ filtered.out = <<filtered.data[1], filtered.data[3]>>

\* C34 (SpecSchedule): of each daily send at most one scheduled job waits or
\* runs at any moment; the steps of a send started by a command leave the
\* scheduler as it is, and a scheduled job adds its successor once, in the
\* step that ends its own send.
C34_AtMostOneJobPerKind ==
    /\ [](jobs # Off =>
            \A daily \in {"morning", "afternoon"} :
                jobs[daily] + (IF JobRuns(daily) THEN 1 ELSE 0) <= 1)
    /\ [][jobs' # jobs =>
            /\ wf'["command"] = wf["command"]
            /\ \A daily \in {"morning", "afternoon"} :
                  jobs'[daily] > jobs[daily] =>
                      /\ JobRuns(daily)
                      /\ wf'["job"].pc = "idle"
                      /\ jobs'[daily] = jobs[daily] + 1]_vars

\* C34 witness: the scheduled greeting ran, was sent and has its successor
\* waiting, and a send started by a command has ended well too.
C34_Witness ==
    /\ jobs # Off
    /\ jobs["morning"] = 1
    /\ wf["job"].result = "ok"
    /\ wf["command"].result = "ok"
    /\ register["morning_stickers"] # <<>>

\* C33 (as stated; refuted under SpecNextTime): with the one-day timespan of
\* the callers, the time that /greeting_info reports (next_greeting_time) is
\* the run date of the greeting job whenever one waits, and it is never a
\* moment that has passed.
C33_ReportedTimeIsNextRun ==
    (nextTime.pc # "idle" /\ nextTime.timespan = OneDay) =>
        /\ nextTime.pc = "armed" => nextTime.next_greeting_time = nextTime.dt
        /\ nextTime.next_greeting_time >= nextTime.clock

\* C35 (SpecMarkCalls): a call of set_as_used for a kind leaves the register
\* lists of all other kinds as they were, and the keys of the register too,
\* also when the call resets the list of its kind.
C35_MarkLeavesOtherKinds ==
    [][/\ DOMAIN register' = DOMAIN register
       /\ \A k \in DOMAIN register :
             k # lastMark'.entry => register'[k] = register[k]]_vars

\* C35 witness: a call has reset the list of its kind while the list of
\* another kind holds uids.
C35_Witness ==
    /\ lastMark.pc = "returned"
    /\ ~lastMark.raised
    /\ register[lastMark.entry] = <<>>
    /\ \E k \in DOMAIN register : register[k] # <<>>

\* C36 (as stated; refuted under SpecPartialRegister): on every register file
\* on which a pick returns an entry, also one without the key of the kind,
\* the set_as_used that follows the send completes without error: no
\* workflow ends with the KeyError of set_as_used.
C36_MarkAcceptsWhatPickReads ==
    \A p \in Procs : wf[p].result # "KeyError"

\* C38: in the authored morning graph the fragments that several roots share
\* (general_right_part, preciosura_tropical among them) never have next
\* tokens; every phrase is a root followed by one of its fragments, except
\* that a fragment's own token under "Wenas" (same value, not the shared
\* token) is followed by exactly one more token, a "" or a stretched "wenas";
\* no phrase has more than three tokens.
C38_SharedFragmentsStayLeaves ==
    LET shared == Range(general_right_part)
    IN  /\ \A t \in shared : next_tokens[t] = {}
        /\ Len(path) <= 3
        /\ evalPc = "done" =>
              /\ Len(path) \in {2, 3}
              /\ path[1] \in initial_tokens
              /\ path[2] \in next_tokens[path[1]]
              /\ Len(path) = 3 <=>
                    (path[1] = <<"wenas">> /\ path[2] \notin shared)
              /\ Len(path) = 3 =>
                    /\ \E t \in shared : value[path[2]] = value[t]
                    /\ path[3] \in next_tokens[path[2]]
                    /\ value[path[3]] \in {Str(<<>>), CustomGeneratedText}
                    /\ next_tokens[path[3]] = {}

C38_Witness ==
    /\ evalPc = "done"
    /\ Len(path) = 3
    /\ path[1] = <<"wenas">>
    /\ value[path[2]] = value[<<"preciosura_tropical">>]
    /\ value[path[3]] = CustomGeneratedText

====
